---- MODULE Spec2Model ----
(***************************************************************************)
(* Model of codenav_core: the import resolver (import_resolver.rs), the    *)
(* hub detector (hub_detection.rs), the PageRank engine (pagerank.rs) and  *)
(* the aggregation facade (lib.rs).                                        *)
(*                                                                         *)
(* Strings are sequences of one-character strings.  f64 values are exact   *)
(* rationals <<numerator, denominator>> in lowest terms; the two special   *)
(* f64 results of a division by zero are <<"NaN">> and <<"inf">>.          *)
(***************************************************************************)
EXTENDS Integers, Sequences, FiniteSets, TLC

VARIABLES
    \* ---- normalize_import exercised on its own
    nPc, nInput, nOnce, nTwice,
    \* ---- ImportResolver
    file_index, extensions, normalized_index,
    rPc, import_string, resolved,
    batch, caller, slots, completed, batch_result, resolution_stats,
    \* ---- the request to a graph operation of lib.rs, and its result
    num_nodes, edges, gPc, threshold, top_n, damping, hubs, critical,
    graph_stats,
    \* ---- PageRankComputer and its compute()
    computer, max_iterations, tolerance, prPc, scores, new_scores,
    iteration, diffs,
    \* ---- HubDetector::get_hub_stats
    hPc, hub_stats,
    \* ---- the per-node tasks of one iteration of compute()
    running, dangling_sum

normVars == <<nPc, nInput, nOnce, nTwice>>
resolverVars == <<file_index, extensions, normalized_index,
                  rPc, import_string, resolved,
                  batch, caller, slots, completed, batch_result, resolution_stats>>
requestVars == <<num_nodes, edges>>
facadeVars == <<gPc, threshold, top_n, damping, hubs, critical, graph_stats>>
pagerankVars == <<computer, max_iterations, tolerance, prPc, scores, new_scores,
                  iteration, diffs>>
hubVars == <<hPc, hub_stats>>
taskVars == <<running, dangling_sum>>
vars == <<normVars, resolverVars, requestVars, facadeVars, pagerankVars,
          hubVars, taskVars>>

(***************************************************************************)
(* Bounds of the model.                                                    *)
(***************************************************************************)
MaxLen == 4

BoundedSeq(S, n) == UNION {[1..k -> S] : k \in 0..n}

Min(a, b) == IF a <= b THEN a ELSE b

(***************************************************************************)
(* Strings.                                                                *)
(***************************************************************************)
\* str::starts_with
StartsWith(s, p) == Len(p) <= Len(s) /\ SubSeq(s, 1, Len(p)) = p

\* str::ends_with
EndsWith(s, p) == Len(p) <= Len(s) /\ SubSeq(s, Len(s) - Len(p) + 1, Len(s)) = p

\* char::is_whitespace, on the characters the model uses
IsSpace(c) == c = " "

RECURSIVE TrimStart(_)
TrimStart(s) ==
    IF s # <<>> /\ IsSpace(Head(s)) THEN TrimStart(Tail(s)) ELSE s

RECURSIVE TrimEnd(_)
TrimEnd(s) ==
    IF s # <<>> /\ IsSpace(s[Len(s)]) THEN TrimEnd(SubSeq(s, 1, Len(s) - 1)) ELSE s

\* str::trim
Trim(s) == TrimEnd(TrimStart(s))

\* str::replace: the non-overlapping matches of pat, found left to right in
\* one pass, are replaced by rep; the result is not scanned again.
RECURSIVE Replace(_, _, _)
Replace(s, pat, rep) ==
    IF Len(s) < Len(pat) THEN s
    ELSE IF StartsWith(s, pat)
         THEN rep \o Replace(SubSeq(s, Len(pat) + 1, Len(s)), pat, rep)
         ELSE <<Head(s)>> \o Replace(Tail(s), pat, rep)

\* str::trim_start_matches(char)
RECURSIVE TrimStartMatches(_, _)
TrimStartMatches(s, c) ==
    IF s # <<>> /\ Head(s) = c THEN TrimStartMatches(Tail(s), c) ELSE s

\* char::to_lowercase on the letters the model uses
LowerChar(c) ==
    CASE c = "A" -> "a"
      [] c = "B" -> "b"
      [] OTHER -> c

\* str::to_lowercase
ToLowercase(s) == [i \in 1..Len(s) |-> LowerChar(s[i])]

\* str::rfind(char): the 1-based position of the last c in s, 0 for None
RECURSIVE RFind(_, _)
RFind(s, c) ==
    IF s = <<>> THEN 0
    ELSE IF s[Len(s)] = c THEN Len(s)
    ELSE RFind(SubSeq(s, 1, Len(s) - 1), c)

(***************************************************************************)
(* import_resolver.rs: the free functions.                                 *)
(***************************************************************************)
normalize_import(import) ==
    TrimStartMatches(
        Replace(
            Replace(
                Replace(Trim(import), <<"\\">>, <<"/">>),
                <<".", "/">>, <<>>),
            <<".", ".", "/">>, <<>>),
        "/")

remove_extension(path) ==
    LET dot_pos == RFind(path, ".")
        slash_pos == RFind(path, "/")
    IN  IF dot_pos # 0
        THEN IF slash_pos # 0
             THEN IF dot_pos > slash_pos
                  THEN SubSeq(path, 1, dot_pos - 1)
                  ELSE path
             ELSE SubSeq(path, 1, dot_pos - 1)
        ELSE path

\* path.rsplit('/').next(): the part after the last '/', always Some
get_basename(path) == SubSeq(path, RFind(path, "/") + 1, Len(path))

(***************************************************************************)
(* Option<String>.                                                         *)
(***************************************************************************)
None == <<"None">>
Some(path) == <<"Some", path>>
IsSome(r) == r[1] = "Some"

(***************************************************************************)
(* The inputs of the resolver.                                             *)
(***************************************************************************)
MaxFiles == 2
MaxBatch == 2

ExtPy == <<".", "p", "y">>
ExtJs == <<".", "j", "s">>

\* the normalized paths a file index is drawn from
IndexKeys ==
    { <<"a">>,
      <<"a">> \o ExtPy,
      <<"a">> \o ExtJs,
      <<"a", "/", "i", "n", "d", "e", "x">> \o ExtJs,
      <<"a", "/", "i", "n", "d", "e", "x">> \o ExtPy,
      <<"a", "/", "_", "_", "i", "n", "i", "t", "_", "_">> \o ExtPy,
      <<"x", "/", "a">> \o ExtPy,
      <<"l", "i", "b", "/", "a">>,
      <<"d", ".", "x", "/", "a">>,
      <<"B">> \o ExtPy }

\* the actual path of a file is its normalized path under one of these roots
Roots == { <<>>, <<"r", "/">> }

FileIndexes ==
    { [k \in ks |-> root \o k] :
        ks \in {s \in SUBSET IndexKeys : Cardinality(s) <= MaxFiles},
        root \in Roots }

ExtensionLists == { <<>>, <<ExtPy>>, <<ExtPy, ExtJs>>, <<ExtJs, ExtPy>> }

ImportStrings ==
    { <<"a">>,
      <<".", "/", "a">>,
      <<"A">>,
      <<"a">> \o ExtPy,
      <<"b">>,
      <<" ", "x", "\\", "a">>,
      <<>>,
      <<"p", "y">>,
      <<"z", "z">> }

BatchImportStrings == { <<".", "/", "a">>, <<"z", "z">> }

\* the orders in which a hash table may yield the keys ks
IterationOrders(ks) ==
    { o \in [1..Cardinality(ks) -> ks] : \A k \in ks : \E i \in DOMAIN o : o[i] = k }

(***************************************************************************)
(* ImportResolver::new                                                     *)
(***************************************************************************)
\* normalized_index.entry(key).or_default().push(actual_path)
PushCandidate(index, key, actual_path) ==
    IF key \in DOMAIN index
    THEN [index EXCEPT ![key] = Append(@, actual_path)]
    ELSE [k \in DOMAIN index \cup {key} |->
            IF k = key THEN <<actual_path>> ELSE index[k]]

\* the body of the loop over the file index, for one entry
IndexEntry(index, norm_path, actual_path) ==
    LET without_ext == remove_extension(norm_path)
        with_path == PushCandidate(index, ToLowercase(without_ext), actual_path)
        basename_no_ext == remove_extension(get_basename(norm_path))
    IN  PushCandidate(with_path, ToLowercase(basename_no_ext), actual_path)

\* the loop over the file index, which yields its entries in the order `order`
RECURSIVE BuildNormalizedIndex(_, _, _)
BuildNormalizedIndex(fi, order, index) ==
    IF order = <<>> THEN index
    ELSE BuildNormalizedIndex(fi, Tail(order),
                              IndexEntry(index, Head(order), fi[Head(order)]))

EmptyIndex == [k \in {} |-> <<>>]

ImportResolverNew(fi, order) == BuildNormalizedIndex(fi, order, EmptyIndex)

(***************************************************************************)
(* ImportResolver::resolve                                                 *)
(***************************************************************************)
IndexNames == << <<"i", "n", "d", "e", "x">>,
                 <<"_", "_", "i", "n", "i", "t", "_", "_">> >>

\* Strategy 2: for ext in &self.extensions
RECURSIVE ProbeExtensions(_, _)
ProbeExtensions(normalized, exts) ==
    IF exts = <<>> THEN None
    ELSE LET with_ext == normalized \o Head(exts)
         IN  IF with_ext \in DOMAIN file_index
             THEN Some(file_index[with_ext])
             ELSE ProbeExtensions(normalized, Tail(exts))

\* Strategy 3, inner loop: for ext in &self.extensions
RECURSIVE ProbeIndexName(_, _, _)
ProbeIndexName(normalized, index_name, exts) ==
    IF exts = <<>> THEN None
    ELSE LET index_path == normalized \o <<"/">> \o index_name \o Head(exts)
         IN  IF index_path \in DOMAIN file_index
             THEN Some(file_index[index_path])
             ELSE ProbeIndexName(normalized, index_name, Tail(exts))

\* Strategy 3, outer loop: for index_name in &["index", "__init__"]
RECURSIVE ProbeIndexFiles(_, _)
ProbeIndexFiles(normalized, names) ==
    IF names = <<>> THEN None
    ELSE LET hit == ProbeIndexName(normalized, Head(names), extensions)
         IN  IF IsSome(hit) THEN hit
             ELSE ProbeIndexFiles(normalized, Tail(names))

\* A mutant of InsertByLen: p goes before the elements of equal key.
RECURSIVE InsertByLenUnstable(_, _)
InsertByLenUnstable(sorted, p) ==
    IF sorted = <<>> THEN <<p>>
    ELSE IF Len(p) <= Len(Head(sorted)) THEN <<p>> \o sorted
    ELSE <<Head(sorted)>> \o InsertByLenUnstable(Tail(sorted), p)

\* one insertion of the stable sort: p goes after every element whose key is
\* not greater than its own
RECURSIVE InsertByLen(_, _)
InsertByLen(sorted, p) ==
    IF sorted = <<>> THEN <<p>>
    ELSE IF Len(p) < Len(Head(sorted)) THEN <<p>> \o sorted
    ELSE <<Head(sorted)>> \o InsertByLen(Tail(sorted), p)

\* sorted.sort_by_key(|p| p.len()): a stable sort
RECURSIVE SortByKeyLen(_)
SortByKeyLen(candidates) ==
    IF candidates = <<>> THEN <<>>
    ELSE InsertByLen(SortByKeyLen(SubSeq(candidates, 1, Len(candidates) - 1)),
                     candidates[Len(candidates)])

\* Strategy 4: fuzzy match on the normalized path
FuzzyMatch(normalized) ==
    LET normalized_lower == ToLowercase(normalized)
    IN  IF normalized_lower \in DOMAIN normalized_index
        THEN LET candidates == normalized_index[normalized_lower]
             IN  IF Len(candidates) = 1 THEN Some(candidates[1])
                 ELSE IF candidates # <<>> THEN Some(SortByKeyLen(candidates)[1])
                 ELSE None
        ELSE None

\* Strategy 5: the keys of the file index the filter keeps
SuffixMatches(normalized) ==
    { k \in DOMAIN file_index :
        \/ EndsWith(k, normalized)
        \/ EndsWith(k, <<"/">> \o normalized) }

\* A mutant of SuffixMatch: the key that matched is returned, not its value.
SuffixMatchKey(normalized) ==
    LET suffix_matches == SuffixMatches(normalized)
    IN  IF Cardinality(suffix_matches) = 1
        THEN Some(CHOOSE k \in suffix_matches : TRUE)
        ELSE None

SuffixMatch(normalized) ==
    LET suffix_matches == SuffixMatches(normalized)
    IN  IF Cardinality(suffix_matches) = 1
        THEN Some(file_index[CHOOSE k \in suffix_matches : TRUE])
        ELSE None

\* A mutant of resolve: the fuzzy match is tried before the probes.
resolve_fuzzy_first(import) ==
    LET normalized == normalize_import(import)
        s4 == FuzzyMatch(normalized)
        s2 == ProbeExtensions(normalized, extensions)
        s3 == ProbeIndexFiles(normalized, IndexNames)
    IN  IF normalized \in DOMAIN file_index THEN Some(file_index[normalized])
        ELSE IF IsSome(s4) THEN s4
        ELSE IF IsSome(s2) THEN s2
        ELSE IF IsSome(s3) THEN s3
        ELSE SuffixMatch(normalized)

resolve(import) ==
    LET normalized == normalize_import(import)
        s2 == ProbeExtensions(normalized, extensions)
        s3 == ProbeIndexFiles(normalized, IndexNames)
        s4 == FuzzyMatch(normalized)
    IN  IF normalized \in DOMAIN file_index THEN Some(file_index[normalized])
        ELSE IF IsSome(s2) THEN s2
        ELSE IF IsSome(s3) THEN s3
        ELSE IF IsSome(s4) THEN s4
        ELSE SuffixMatch(normalized)

(***************************************************************************)
(* f64, as exact rationals.                                                *)
(***************************************************************************)
Abs(n) == IF n < 0 THEN -n ELSE n

RECURSIVE GCD(_, _)
GCD(a, b) == IF b = 0 THEN a ELSE GCD(b, a % b)

\* the rational n/d (d # 0) in lowest terms with a positive denominator
Rat(n, d) ==
    LET g == GCD(Abs(n), Abs(d))
        sign == IF d < 0 THEN -1 ELSE 1
    IN  <<sign * (n \div g), sign * (d \div g)>>

\* `n as f64`
F64(n) == <<n, 1>>

NaN == <<"NaN">>
Infinity == <<"inf">>
IsRat(x) == Len(x) = 2

RAdd(x, y) ==
    LET g == GCD(x[2], y[2])
    IN  Rat(x[1] * (y[2] \div g) + y[1] * (x[2] \div g), (x[2] \div g) * y[2])

RNeg(x) == <<-x[1], x[2]>>
RSub(x, y) == RAdd(x, RNeg(y))

RMul(x, y) ==
    LET g1 == GCD(Abs(x[1]), y[2])
        g2 == GCD(Abs(y[1]), x[2])
    IN  IF x[1] = 0 \/ y[1] = 0 THEN <<0, 1>>
        ELSE <<(x[1] \div g1) * (y[1] \div g2), (x[2] \div g2) * (y[2] \div g1)>>

\* x / y for y # 0
RDiv(x, y) ==
    IF y[1] < 0 THEN RMul(x, <<-y[2], -y[1]>>) ELSE RMul(x, <<y[2], y[1]>>)

RAbs(x) == <<Abs(x[1]), x[2]>>

\* x < y
RLt(x, y) ==
    LET g == GCD(x[2], y[2])
    IN  x[1] * (y[2] \div g) < y[1] * (x[2] \div g)

RLe(x, y) == ~RLt(y, x)

Zero == <<0, 1>>
One == <<1, 1>>

\* the f64 operator `/`: a division by zero does not panic, it yields NaN
\* (0.0 / 0.0) or an infinity (x / 0.0)
F64Div(x, y) ==
    IF y = Zero THEN (IF x = Zero THEN NaN ELSE Infinity) ELSE RDiv(x, y)

\* iter().sum() of a sequence of f64
RECURSIVE RSum(_)
RSum(xs) == IF xs = <<>> THEN Zero ELSE RAdd(RSum(SubSeq(xs, 1, Len(xs) - 1)), xs[Len(xs)])

(***************************************************************************)
(* ImportResolver::resolve_batch and get_resolution_stats                  *)
(***************************************************************************)
Pending == <<"pending">>

\* the closure of the parallel map, for one element of the batch
BatchMap(import) == <<import, resolve(import)>>

\* A mutant of CollectBatch: the results are kept in the order in which the
\* tasks completed.
CollectBatchByCompletion(task_slots, completion) ==
    [k \in 1..Len(completion) |-> task_slots[completion[k]][2]]

\* collect() of an indexed parallel iterator: the k-th result is the k-th
\* task's, whatever the order in which the tasks completed
CollectBatch(task_slots, completion) ==
    [k \in 1..Len(task_slots) |-> task_slots[k][2]]

\* results.iter().filter(|(_, r)| r.is_some()).count()
CountResolved(results) == Cardinality({k \in DOMAIN results : IsSome(results[k][2])})

NoStats == [total |-> 0, resolved |-> 0, unresolved |-> 0, resolution_rate |-> Zero]

ResolutionStats(imports, results) ==
    LET n_resolved == CountResolved(results)
    IN  [ total |-> Len(imports),
          resolved |-> n_resolved,
          unresolved |-> Len(results) - n_resolved,
          resolution_rate |->
              IF imports = <<>> THEN Zero
              ELSE F64Div(F64(n_resolved), F64(Len(imports))) ]

(***************************************************************************)
(* The inputs of the graph components.                                     *)
(***************************************************************************)
MaxNodes == 2
MaxEdges == 2
MaxIter == 3
MaxStatEdges == 9

\* Node-indexed vectors (Vec<T> of length num_nodes) are functions on
\* 0..num_nodes-1, so that an index of the model is an index of the code.
Nodes(n) == 0..(n - 1)

\* the vector with the elements f[0], f[1], ..., each evaluated once
RECURSIVE VecUpTo(_, _)
VecUpTo(f, k) ==
    IF k = 0 THEN <<>> ELSE VecUpTo(f, k - 1) @@ ((k - 1) :> f[k - 1])

Vec(f) == VecUpTo(f, Cardinality(DOMAIN f))

\* the edge lists given with num_nodes = n: the identifier n stands for
\* every identifier that is out of range
EdgeLists(n) == BoundedSeq((0..n) \X (0..n), MaxEdges)

\* the edge lists get_hub_stats is exercised on: long enough for a node to
\* reach the in-degree of a critical hub, over two targets and one identifier
\* that is out of range for every num_nodes
StatEdges == { <<0, 0>>, <<0, 1>>, <<1, MaxNodes>> }
StatEdgeLists == BoundedSeq(StatEdges, MaxStatEdges)

DefaultDamping == <<17, 20>>
Dampings == { <<1, 2>>, DefaultDamping }
DefaultTolerance == <<1, 1000000>>
Tolerances == { <<1, 10>>, DefaultTolerance }

(***************************************************************************)
(* hub_detection.rs                                                        *)
(***************************************************************************)
EmptyTable == [k \in {} |-> 0]

\* *table.entry(key).or_insert(0) += 1
Increment(table, key) ==
    IF key \in DOMAIN table
    THEN [table EXCEPT ![key] = @ + 1]
    ELSE [k \in DOMAIN table \cup {key} |-> IF k = key THEN 1 ELSE table[k]]

\* table.get(&key).copied().unwrap_or(0)
GetOr0(table, key) == IF key \in DOMAIN table THEN table[key] ELSE 0

\* A mutant of Accepted: a self-loop is dropped.
AcceptedNoSelfLoop(n, edge) == edge[1] < n /\ edge[2] < n /\ edge[1] # edge[2]

\* the validation of an edge, in HubDetector::new and PageRankComputer::new
Accepted(n, edge) == edge[1] < n /\ edge[2] < n

\* HubDetector::new: the loop over the edges
RECURSIVE HubDetectorLoop(_, _, _)
HubDetectorLoop(n, es, detector) ==
    IF es = <<>> THEN detector
    ELSE LET e == Head(es)
         IN  HubDetectorLoop(n, Tail(es),
                IF Accepted(n, e)
                THEN [detector EXCEPT
                        !.out_degree = Increment(@, e[1]),
                        !.in_degree = Increment(@, e[2])]
                ELSE detector)

HubDetectorNew(n, es) ==
    HubDetectorLoop(n, es,
        [num_nodes |-> n, in_degree |-> EmptyTable, out_degree |-> EmptyTable])

\* one insertion of the stable sort by |a, b| b.1.cmp(&a.1): p goes after
\* every element whose in-degree is not smaller than its own
RECURSIVE InsertHub(_, _)
InsertHub(sorted, p) ==
    IF sorted = <<>> THEN <<p>>
    ELSE IF Head(sorted)[2] < p[2] THEN <<p>> \o sorted
    ELSE <<Head(sorted)>> \o InsertHub(Tail(sorted), p)

RECURSIVE SortHubs(_)
SortHubs(pairs) ==
    IF pairs = <<>> THEN <<>>
    ELSE InsertHub(SortHubs(SubSeq(pairs, 1, Len(pairs) - 1)), pairs[Len(pairs)])

\* .filter(|(_, &deg)| deg >= min_degree).map(|(&idx, &deg)| (idx, deg)), over
\* the entries of the table in the order `order`
RECURSIVE FilterHubs(_, _, _)
FilterHubs(in_degree, order, min_degree) ==
    IF order = <<>> THEN <<>>
    ELSE LET idx == Head(order)
             rest == FilterHubs(in_degree, Tail(order), min_degree)
         IN  IF in_degree[idx] >= min_degree
             THEN <<<<idx, in_degree[idx]>>>> \o rest
             ELSE rest

\* HubDetector::find_hubs, the table yielding its entries in the order `order`
find_hubs(detector, min_degree, order) ==
    SortHubs(FilterHubs(detector.in_degree, order, min_degree))

\* in_degrees.iter().filter(|&&d| d >= min_degree).count()
CountAtLeast(table, min_degree) ==
    Cardinality({k \in DOMAIN table : table[k] >= min_degree})

\* values().sum()
RECURSIVE SumValues(_)
SumValues(table) ==
    IF DOMAIN table = {} THEN 0
    ELSE LET k == CHOOSE x \in DOMAIN table : TRUE
         IN  table[k] + SumValues([j \in DOMAIN table \ {k} |-> table[j]])

\* values().max().copied().unwrap_or(0)
MaxValue(table) ==
    IF DOMAIN table = {} THEN 0
    ELSE CHOOSE m \in {table[k] : k \in DOMAIN table} :
            \A k \in DOMAIN table : table[k] <= m

\* A mutant of get_hub_stats: the average is taken over all the nodes.
get_hub_stats_over_nodes(detector) ==
    LET in_degrees == detector.in_degree
    IN  [ total_nodes |-> detector.num_nodes,
          nodes_with_imports |-> Cardinality(DOMAIN detector.in_degree),
          total_hubs |-> CountAtLeast(in_degrees, 3),
          critical_hubs |-> CountAtLeast(in_degrees, 8),
          max_in_degree |-> MaxValue(in_degrees),
          avg_in_degree |->
              IF detector.num_nodes # 0
              THEN F64Div(F64(SumValues(in_degrees)), F64(detector.num_nodes))
              ELSE Zero ]

\* HubDetector::get_hub_stats
get_hub_stats(detector) ==
    LET in_degrees == detector.in_degree
    IN  [ total_nodes |-> detector.num_nodes,
          nodes_with_imports |-> Cardinality(DOMAIN detector.in_degree),
          total_hubs |-> CountAtLeast(in_degrees, 3),
          critical_hubs |-> CountAtLeast(in_degrees, 8),
          max_in_degree |-> MaxValue(in_degrees),
          avg_in_degree |->
              IF DOMAIN in_degrees # {}
              THEN F64Div(F64(SumValues(in_degrees)),
                          F64(Cardinality(DOMAIN in_degrees)))
              ELSE Zero ]

(***************************************************************************)
(* pagerank.rs                                                             *)
(***************************************************************************)
\* PageRankComputer::new: the loop over the edges.  vec[i].push(x) and
\* vec[i] += 1 are reached with i < num_nodes only.
\* A mutant of PageRankLoop: the out-degree is counted at the target.
RECURSIVE PageRankLoopTargetDegree(_, _)
PageRankLoopTargetDegree(es, self) ==
    IF es = <<>> THEN self
    ELSE LET e == Head(es)
         IN  PageRankLoopTargetDegree(Tail(es),
                IF Accepted(self.num_nodes, e)
                THEN [self EXCEPT
                        !.adjacency[e[1]] = Append(@, e[2]),
                        !.in_edges[e[2]] = Append(@, e[1]),
                        !.out_degree[e[2]] = @ + 1]
                ELSE self)

RECURSIVE PageRankLoop(_, _)
PageRankLoop(es, self) ==
    IF es = <<>> THEN self
    ELSE LET e == Head(es)
         IN  PageRankLoop(Tail(es),
                IF Accepted(self.num_nodes, e)
                THEN [self EXCEPT
                        !.adjacency[e[1]] = Append(@, e[2]),
                        !.in_edges[e[2]] = Append(@, e[1]),
                        !.out_degree[e[1]] = @ + 1]
                ELSE self)

PageRankComputerNew(n, es, d) ==
    PageRankLoop(es,
        [ num_nodes |-> n,
          adjacency |-> [i \in Nodes(n) |-> <<>>],
          in_edges |-> [i \in Nodes(n) |-> <<>>],
          out_degree |-> [i \in Nodes(n) |-> 0],
          damping |-> d ])

\* the nodes i with out_degree[i] == 0
DanglingNodes(self) ==
    {i \in Nodes(self.num_nodes) : self.out_degree[i] = 0}

\* a sum of f64 over a finite set of indices
RECURSIVE RSumOver(_, _)
RSumOver(S, f) ==
    IF S = {} THEN Zero
    ELSE LET i == CHOOSE x \in S : TRUE
         IN  RAdd(f[i], RSumOver(S \ {i}, f))

\* dangling_nodes.par_iter().map(|&i| old[i]).sum()
DanglingSum(self, old) == RSumOver(DanglingNodes(self), old)

\* self.in_edges[i].iter().map(|&j| old[j] / self.out_degree[j] as f64).sum()
IncomingContrib(self, old, i) ==
    RSum([k \in 1..Len(self.in_edges[i]) |->
            LET j == self.in_edges[i][k]
            IN  F64Div(old[j], F64(self.out_degree[j]))])

Teleport(self) ==
    RDiv(RSub(One, self.damping), F64(self.num_nodes))

\* the closure of the parallel update, for node i
NewScore(self, old, dangling_contrib, i) ==
    RAdd(RAdd(Teleport(self), dangling_contrib),
         RMul(self.damping, IncomingContrib(self, old, i)))

\* A mutant of UpdateScores: the dangling mass is dropped.
UpdateScoresNoDangling(self, old) ==
    Vec([i \in Nodes(self.num_nodes) |-> NewScore(self, old, Zero, i)])

\* one iteration: the dangling sum and the update of every node
UpdateScores(self, old) ==
    LET dangling_contrib ==
            RDiv(RMul(self.damping, DanglingSum(self, old)),
                 F64(self.num_nodes))
    IN  Vec([i \in Nodes(self.num_nodes) |->
                NewScore(self, old, dangling_contrib, i)])

\* the L1 norm of old - new
L1Diff(old, new) == RSumOver(DOMAIN old, [i \in DOMAIN old |-> RAbs(RSub(old[i], new[i]))])

\* A mutant of Converged: the loop never breaks early.
ConvergedNever(diff, tol) == FALSE

\* if diff < tol { break; }
Converged(diff, tol) == RLt(diff, tol)

InitialScores(self) ==
    Vec([i \in Nodes(self.num_nodes) |-> RDiv(One, F64(self.num_nodes))])

\* the normalization after the loop
NormalizeScores(old) ==
    LET total == RSumOver(DOMAIN old, old)
    IN  IF RLt(Zero, total)
        THEN Vec([i \in DOMAIN old |-> RDiv(old[i], total)])
        ELSE old

\* for _iteration in 0..max_iterations, with `remaining` iterations to go
RECURSIVE PowerIteration(_, _, _, _)
PowerIteration(self, old, remaining, tol) ==
    IF remaining = 0 THEN old
    ELSE LET updated == UpdateScores(self, old)
         IN  IF Converged(L1Diff(old, updated), tol)
             THEN updated
             ELSE PowerIteration(self, updated, remaining - 1, tol)

\* PageRankComputer::compute
compute(self, max_iter, tol) ==
    IF self.num_nodes = 0 THEN <<>>
    ELSE NormalizeScores(
             PowerIteration(self, InitialScores(self),
                            max_iter, tol))

(***************************************************************************)
(* lib.rs                                                                  *)
(***************************************************************************)
CriticalMaxIterations == 100

\* |a, b| b.1.partial_cmp(&a.1): p goes after every element whose score is
\* not smaller than its own
RECURSIVE InsertCritical(_, _)
InsertCritical(sorted, p) ==
    IF sorted = <<>> THEN <<p>>
    ELSE IF RLt(Head(sorted)[2], p[2]) THEN <<p>> \o sorted
    ELSE <<Head(sorted)>> \o InsertCritical(Tail(sorted), p)

RECURSIVE SortCritical(_)
SortCritical(combined) ==
    IF combined = <<>> THEN <<>>
    ELSE InsertCritical(SortCritical(SubSeq(combined, 1, Len(combined) - 1)),
                        combined[Len(combined)])

\* Vec::truncate
Truncate(v, len) == SubSeq(v, 1, Min(len, Len(v)))

\* A mutant of Combined: only the nodes of the in-degree table are kept.
CombinedWithInDegree(pr_scores, in_degrees) ==
    LET kept == {i \in DOMAIN pr_scores : i \in DOMAIN in_degrees}
        nth(k) == CHOOSE i \in kept : Cardinality({j \in kept : j < i}) = k - 1
    IN  [k \in 1..Cardinality(kept) |->
            <<nth(k), pr_scores[nth(k)], in_degrees[nth(k)]>>]

\* pr_scores.iter().enumerate().map(|(i, &score)| (i, score, in-degree of i))
Combined(pr_scores, in_degrees) ==
    [k \in 1..Cardinality(DOMAIN pr_scores) |->
        <<k - 1, pr_scores[k - 1], GetOr0(in_degrees, k - 1)>>]

\* get_critical_nodes.  The power iteration runs for at most MaxIter of its
\* CriticalMaxIterations iterations.
get_critical_nodes(n, es, n_top, d) ==
    LET pr_computer == PageRankComputerNew(n, es, d)
        pr_scores == compute(pr_computer, Min(CriticalMaxIterations, MaxIter),
                             DefaultTolerance)
        detector == HubDetectorNew(n, es)
        in_degrees == detector.in_degree
    IN  Truncate(SortCritical(Combined(pr_scores, in_degrees)), n_top)

\* A mutant of compute_graph_stats's edge count: the accepted edges.
TotalEdgesAccepted(n, es) ==
    Cardinality({k \in DOMAIN es : Accepted(n, es[k])})

\* edges.len()
TotalEdges(n, es) == Len(es)

compute_graph_stats(n, es) ==
    LET detector == HubDetectorNew(n, es)
        in_degrees == detector.in_degree
        out_degrees == detector.out_degree
        total_in == SumValues(in_degrees)
        total_out == SumValues(out_degrees)
        isolated == Cardinality({i \in Nodes(n) :
                        GetOr0(in_degrees, i) = 0 /\ GetOr0(out_degrees, i) = 0})
    IN  [ total_edges |-> TotalEdges(n, es),
          avg_in_degree |-> F64Div(F64(total_in), F64(n)),
          avg_out_degree |-> F64Div(F64(total_out), F64(n)),
          max_in_degree |-> MaxValue(in_degrees),
          max_out_degree |-> MaxValue(out_degrees),
          isolated_nodes |-> isolated ]

(***************************************************************************)
(* The state machines.                                                     *)
(***************************************************************************)
NormAlphabet == {" ", ".", "/", "\\", "a"}

NormIdle ==
    /\ nPc = "off"
    /\ nInput = <<>>
    /\ nOnce = <<>>
    /\ nTwice = <<>>

ResolverIdle ==
    /\ file_index = EmptyIndex
    /\ extensions = <<>>
    /\ normalized_index = EmptyIndex
    /\ rPc = "off"
    /\ import_string = <<>>
    /\ resolved = None
    /\ batch = <<>>
    /\ caller = "none"
    /\ slots = <<>>
    /\ completed = <<>>
    /\ batch_result = <<>>
    /\ resolution_stats = NoStats

\* ---- normalize_import, applied once and then to its own result
NormalizeOnce ==
    /\ nPc = "input"
    /\ nOnce' = normalize_import(nInput)
    /\ nPc' = "once"
    /\ UNCHANGED <<nInput, nTwice>>

NormalizeAgain ==
    /\ nPc = "once"
    /\ nTwice' = normalize_import(nOnce)
    /\ nPc' = "twice"
    /\ UNCHANGED <<nInput, nOnce>>

\* ---- the resolver
ResolverConstructed ==
    /\ file_index \in FileIndexes
    /\ extensions \in ExtensionLists
    /\ \E order \in IterationOrders(DOMAIN file_index) :
           normalized_index = ImportResolverNew(file_index, order)
    /\ rPc = "ready"
    /\ import_string = <<>>
    /\ resolved = None
    /\ batch = <<>>
    /\ caller = "none"
    /\ slots = <<>>
    /\ completed = <<>>
    /\ batch_result = <<>>
    /\ resolution_stats = NoStats

Resolve(import) ==
    /\ rPc \in {"ready", "resolved"}
    /\ import_string' = import
    /\ resolved' = resolve(import)
    /\ rPc' = "resolved"
    /\ UNCHANGED <<file_index, extensions, normalized_index,
                   batch, caller, slots, completed, batch_result, resolution_stats>>

\* par_iter(): one task per element of the batch
ResolveBatchFork(imports, who) ==
    /\ rPc = "ready"
    /\ batch' = imports
    /\ caller' = who
    /\ slots' = [k \in 1..Len(imports) |-> Pending]
    /\ completed' = <<>>
    /\ rPc' = "forked"
    /\ UNCHANGED <<file_index, extensions, normalized_index,
                   import_string, resolved, batch_result, resolution_stats>>

\* one task runs the closure on its element
BatchTask(k) ==
    /\ rPc = "forked"
    /\ slots[k] = Pending
    /\ slots' = [slots EXCEPT ![k] = <<"done", BatchMap(batch[k])>>]
    /\ completed' = Append(completed, k)
    /\ UNCHANGED <<file_index, extensions, normalized_index, rPc,
                   import_string, resolved, batch, caller, batch_result,
                   resolution_stats>>

\* the join: collect(), and for get_resolution_stats the counts
ResolveBatchCollect ==
    /\ rPc = "forked"
    /\ \A k \in DOMAIN slots : slots[k] # Pending
    /\ batch_result' = CollectBatch(slots, completed)
    /\ resolution_stats' =
           IF caller = "get_resolution_stats"
           THEN ResolutionStats(batch, batch_result')
           ELSE resolution_stats
    /\ rPc' = "collected"
    /\ UNCHANGED <<file_index, extensions, normalized_index,
                   import_string, resolved, batch, caller, slots, completed>>

\* ---- the graph operations of lib.rs
NoGraphStats ==
    [ total_edges |-> 0, avg_in_degree |-> Zero, avg_out_degree |-> Zero,
      max_in_degree |-> 0, max_out_degree |-> 0, isolated_nodes |-> 0 ]

NoComputer == PageRankComputerNew(0, <<>>, DefaultDamping)

RequestIdle ==
    /\ num_nodes = 0
    /\ edges = <<>>

FacadeIdle ==
    /\ gPc = "off"
    /\ threshold = 0
    /\ top_n = 0
    /\ damping = DefaultDamping
    /\ hubs = <<>>
    /\ critical = <<>>
    /\ graph_stats = NoGraphStats

NoHubStats ==
    [ total_nodes |-> 0, nodes_with_imports |-> 0, total_hubs |-> 0,
      critical_hubs |-> 0, max_in_degree |-> 0, avg_in_degree |-> Zero ]

HubStatsIdle ==
    /\ hPc = "off"
    /\ hub_stats = NoHubStats

TasksIdle ==
    /\ running = {}
    /\ dangling_sum = Zero

PageRankIdle ==
    /\ computer = NoComputer
    /\ max_iterations = 0
    /\ tolerance = DefaultTolerance
    /\ prPc = "off"
    /\ scores = <<>>
    /\ new_scores = <<>>
    /\ iteration = 0
    /\ diffs = <<>>

Request ==
    /\ num_nodes \in 0..MaxNodes
    /\ edges \in EdgeLists(num_nodes)

DetectHubs(t, order) ==
    /\ gPc = "request"
    /\ threshold' = t
    /\ hubs' = find_hubs(HubDetectorNew(num_nodes, edges), t, order)
    /\ gPc' = "detect_hubs"
    /\ UNCHANGED <<num_nodes, edges, top_n, damping, critical, graph_stats>>

GetCriticalNodes(n, d) ==
    /\ gPc = "request"
    /\ top_n' = n
    /\ damping' = d
    /\ critical' = get_critical_nodes(num_nodes, edges, n, d)
    /\ gPc' = "get_critical_nodes"
    /\ UNCHANGED <<num_nodes, edges, threshold, hubs, graph_stats>>

ComputeGraphStats ==
    /\ gPc = "request"
    /\ graph_stats' = compute_graph_stats(num_nodes, edges)
    /\ gPc' = "compute_graph_stats"
    /\ UNCHANGED <<num_nodes, edges, threshold, top_n, damping, hubs, critical>>

\* ---- HubDetector::new followed by get_hub_stats
GetHubStats ==
    /\ hPc = "request"
    /\ hub_stats' = get_hub_stats(HubDetectorNew(num_nodes, edges))
    /\ hPc' = "get_hub_stats"
    /\ UNCHANGED <<num_nodes, edges>>

\* ---- fast_pagerank: PageRankComputer::new, then compute() step by step
PageRankConstructed ==
    /\ \E d \in Dampings : computer = PageRankComputerNew(num_nodes, edges, d)
    /\ max_iterations \in 0..MaxIter
    /\ tolerance \in Tolerances
    /\ prPc = "start"
    /\ scores = <<>>
    /\ new_scores = <<>>
    /\ iteration = 0
    /\ diffs = <<>>

\* if self.num_nodes == 0 { return Vec::new(); }
ComputeEmpty ==
    /\ prPc = "start"
    /\ computer.num_nodes = 0
    /\ scores' = <<>>
    /\ prPc' = "done"
    /\ UNCHANGED <<num_nodes, edges, computer, max_iterations, tolerance,
                   new_scores, iteration, diffs>>

\* the two vectors are initialized and the loop is entered
ComputeBegin ==
    /\ prPc = "start"
    /\ computer.num_nodes # 0
    /\ scores' = InitialScores(computer)
    /\ new_scores' = [i \in Nodes(computer.num_nodes) |-> Zero]
    /\ prPc' = IF max_iterations = 0 THEN "normalize" ELSE "loop"
    /\ UNCHANGED <<num_nodes, edges, computer, max_iterations, tolerance,
                   iteration, diffs>>

\* one iteration of the loop: update, L1 norm, swap, convergence test
ComputeIterate ==
    /\ prPc = "loop"
    /\ LET updated == UpdateScores(computer, scores)
           diff == L1Diff(scores, updated)
       IN  /\ scores' = updated
           /\ new_scores' = scores
           /\ diffs' = Append(diffs, diff)
           /\ iteration' = iteration + 1
           /\ prPc' = IF Converged(diff, tolerance) \/ iteration' = max_iterations
                      THEN "normalize" ELSE "loop"
    /\ UNCHANGED <<num_nodes, edges, computer, max_iterations, tolerance>>

\* ---- one iteration of compute(), task by task
\* the dangling sum is reduced and par_iter_mut().for_each() forks one task
\* per element of new_scores
IterateFork ==
    /\ prPc = "loop"
    /\ dangling_sum' = DanglingSum(computer, scores)
    /\ running' = Nodes(computer.num_nodes)
    /\ prPc' = "update"
    /\ UNCHANGED <<num_nodes, edges, computer, max_iterations, tolerance,
                   scores, new_scores, iteration, diffs>>

\* the task of node i: the closure reads `scores` and the graph, and writes
\* through its own `new_score` reference
NodeTask(i) ==
    /\ prPc = "update"
    /\ i \in running
    /\ LET dangling_contrib ==
               RDiv(RMul(computer.damping, dangling_sum),
                    F64(computer.num_nodes))
       IN  new_scores' =
               [new_scores EXCEPT
                   ![i] = NewScore(computer, scores, dangling_contrib, i)]
    /\ running' = running \ {i}
    /\ UNCHANGED <<num_nodes, edges, computer, max_iterations, tolerance,
                   prPc, scores, iteration, diffs, dangling_sum>>

\* A mutant of Joined: for_each returns without waiting for its tasks.
JoinedEarly(pending) == TRUE

\* for_each returns when every task has run
Joined(pending) == pending = {}

\* after the join: the L1 norm, the swap and the convergence test
IterateJoin ==
    /\ prPc = "update"
    /\ Joined(running)
    /\ LET diff == L1Diff(scores, new_scores)
       IN  /\ scores' = new_scores
           /\ new_scores' = scores
           /\ diffs' = Append(diffs, diff)
           /\ iteration' = iteration + 1
           /\ prPc' = IF Converged(diff, tolerance) \/ iteration' = max_iterations
                      THEN "normalize" ELSE "loop"
    /\ running' = {}
    /\ UNCHANGED <<num_nodes, edges, computer, max_iterations, tolerance,
                   dangling_sum>>

\* the normalization and the return
ComputeNormalize ==
    /\ prPc = "normalize"
    /\ scores' = NormalizeScores(scores)
    /\ prPc' = "done"
    /\ UNCHANGED <<num_nodes, edges, computer, max_iterations, tolerance,
                   new_scores, iteration, diffs>>

othersOfNorm == <<resolverVars, requestVars, facadeVars, pagerankVars,
                  hubVars, taskVars>>
othersOfResolver == <<normVars, requestVars, facadeVars, pagerankVars,
                      hubVars, taskVars>>
othersOfFacade == <<normVars, resolverVars, pagerankVars, hubVars, taskVars>>
othersOfPageRank == <<normVars, resolverVars, facadeVars, hubVars, taskVars>>
othersOfHubStats == <<normVars, resolverVars, facadeVars, pagerankVars, taskVars>>
othersOfTasks == <<normVars, resolverVars, facadeVars, hubVars>>

InitNorm ==
    /\ nPc = "input"
    /\ nInput \in BoundedSeq(NormAlphabet, MaxLen)
    /\ nOnce = <<>>
    /\ nTwice = <<>>
    /\ ResolverIdle
    /\ RequestIdle
    /\ FacadeIdle
    /\ PageRankIdle
    /\ HubStatsIdle
    /\ TasksIdle

NextNorm ==
    \/ NormalizeOnce /\ UNCHANGED othersOfNorm
    \/ NormalizeAgain /\ UNCHANGED othersOfNorm

SpecNorm == InitNorm /\ [][NextNorm]_vars

InitResolver ==
    /\ NormIdle
    /\ ResolverConstructed
    /\ RequestIdle
    /\ FacadeIdle
    /\ PageRankIdle
    /\ HubStatsIdle
    /\ TasksIdle

NextResolver ==
    \/ \E import \in ImportStrings : Resolve(import) /\ UNCHANGED othersOfResolver
    \/ \E imports \in BoundedSeq(BatchImportStrings, MaxBatch) :
       \E who \in {"resolve_batch", "get_resolution_stats"} :
           ResolveBatchFork(imports, who) /\ UNCHANGED othersOfResolver
    \/ \E k \in DOMAIN slots : BatchTask(k) /\ UNCHANGED othersOfResolver
    \/ ResolveBatchCollect /\ UNCHANGED othersOfResolver

SpecResolver == InitResolver /\ [][NextResolver]_vars

InitGraph ==
    /\ NormIdle
    /\ ResolverIdle
    /\ Request
    /\ gPc = "request"
    /\ threshold = 0
    /\ top_n = 0
    /\ damping = DefaultDamping
    /\ hubs = <<>>
    /\ critical = <<>>
    /\ graph_stats = NoGraphStats
    /\ PageRankIdle
    /\ HubStatsIdle
    /\ TasksIdle

NextGraph ==
    \/ \E t \in 0..(MaxEdges + 1) :
       \E order \in IterationOrders(DOMAIN HubDetectorNew(num_nodes, edges).in_degree) :
           DetectHubs(t, order) /\ UNCHANGED othersOfFacade
    \/ \E n \in 0..(MaxNodes + 1) : \E d \in Dampings :
           GetCriticalNodes(n, d) /\ UNCHANGED othersOfFacade
    \/ ComputeGraphStats /\ UNCHANGED othersOfFacade

SpecGraph == InitGraph /\ [][NextGraph]_vars

InitPageRank ==
    /\ NormIdle
    /\ ResolverIdle
    /\ Request
    /\ FacadeIdle
    /\ PageRankConstructed
    /\ HubStatsIdle
    /\ TasksIdle

NextPageRank ==
    \/ ComputeEmpty /\ UNCHANGED othersOfPageRank
    \/ ComputeBegin /\ UNCHANGED othersOfPageRank
    \/ ComputeIterate /\ UNCHANGED othersOfPageRank
    \/ ComputeNormalize /\ UNCHANGED othersOfPageRank

SpecPageRank == InitPageRank /\ [][NextPageRank]_vars

InitHubStats ==
    /\ NormIdle
    /\ ResolverIdle
    /\ num_nodes \in 0..MaxNodes
    /\ edges \in StatEdgeLists
    /\ FacadeIdle
    /\ PageRankIdle
    /\ hPc = "request"
    /\ hub_stats = NoHubStats
    /\ TasksIdle

NextHubStats ==
    \/ GetHubStats /\ UNCHANGED othersOfHubStats

SpecHubStats == InitHubStats /\ [][NextHubStats]_vars

\* fast_pagerank with its default damping
InitTasks ==
    /\ NormIdle
    /\ ResolverIdle
    /\ Request
    /\ FacadeIdle
    /\ computer = PageRankComputerNew(num_nodes, edges, DefaultDamping)
    /\ max_iterations \in 0..MaxIter
    /\ tolerance \in Tolerances
    /\ prPc = "start"
    /\ scores = <<>>
    /\ new_scores = <<>>
    /\ iteration = 0
    /\ diffs = <<>>
    /\ HubStatsIdle
    /\ TasksIdle

NextTasks ==
    \/ ComputeEmpty /\ UNCHANGED <<othersOfTasks, taskVars>>
    \/ ComputeBegin /\ UNCHANGED <<othersOfTasks, taskVars>>
    \/ IterateFork /\ UNCHANGED othersOfTasks
    \/ \E i \in running : NodeTask(i) /\ UNCHANGED othersOfTasks
    \/ IterateJoin /\ UNCHANGED othersOfTasks
    \/ ComputeNormalize /\ UNCHANGED <<othersOfTasks, taskVars>>

SpecTasks == InitTasks /\ [][NextTasks]_vars

(***************************************************************************)
(* The properties.                                                         *)
(***************************************************************************)
Least(S) == CHOOSE x \in S : \A y \in S : x <= y
Elements(seq) == {seq[k] : k \in DOMAIN seq}

\* ---- resolve
Query == normalize_import(import_string)

\* the positions in the extension list whose probe `query + ext` is a key
ExtHits ==
    {i \in DOMAIN extensions : Query \o extensions[i] \in DOMAIN file_index}

\* the j-th directory-index probe: stems outermost, extensions innermost
IndexProbe(j) ==
    Query \o <<"/">> \o IndexNames[((j - 1) \div Len(extensions)) + 1]
          \o extensions[((j - 1) % Len(extensions)) + 1]

IndexHits ==
    {j \in 1..(Len(IndexNames) * Len(extensions)) : IndexProbe(j) \in DOMAIN file_index}

FuzzyCandidates ==
    IF ToLowercase(Query) \in DOMAIN normalized_index
    THEN Elements(normalized_index[ToLowercase(Query)])
    ELSE {}

ShortestCandidates ==
    {c \in FuzzyCandidates : \A other \in FuzzyCandidates : Len(c) <= Len(other)}

SuffixKeys ==
    {k \in DOMAIN file_index :
        \E cut \in 0..Len(k) : SubSeq(k, cut + 1, Len(k)) = Query}

\* C1: resolve returns the result of the earliest strategy that hits, in the
\* order exact match, extension probe (in extension order), directory-index
\* probe ("index" before "__init__", extensions innermost), lowercased lookup,
\* unique suffix match; it returns None only when all five miss.
C1_CascadeOrder ==
    rPc = "resolved" =>
        IF Query \in DOMAIN file_index
        THEN resolved = Some(file_index[Query])
        ELSE IF ExtHits # {}
        THEN resolved = Some(file_index[Query \o extensions[Least(ExtHits)]])
        ELSE IF IndexHits # {}
        THEN resolved = Some(file_index[IndexProbe(Least(IndexHits))])
        ELSE IF FuzzyCandidates # {}
        THEN \E c \in ShortestCandidates : resolved = Some(c)
        ELSE IF Cardinality(SuffixKeys) = 1
        THEN \E k \in SuffixKeys : resolved = Some(file_index[k])
        ELSE resolved = None

\* a directory-index probe hit, after the exact match and the extension probe
\* missed, where the lowercased lookup would have answered with another file
C1_Witness ==
    /\ rPc = "resolved"
    /\ Query \notin DOMAIN file_index
    /\ extensions # <<>>
    /\ ExtHits = {}
    /\ IndexHits # {}
    /\ FuzzyCandidates # {}
    /\ \A c \in ShortestCandidates : resolved # Some(c)

\* ---- normalize_import
\* C2: normalize_import is idempotent.
C2_NormalizeIdempotent == nPc = "twice" => nTwice = nOnce

\* ---- resolve_batch
\* C7: resolve_batch returns, for every order in which the tasks complete, a
\* sequence as long as the batch whose k-th element is
\* (imports[k], resolve(imports[k])).
C7_BatchPreservesOrder ==
    rPc = "collected" =>
        /\ Len(batch_result) = Len(batch)
        /\ \A k \in DOMAIN batch :
               batch_result[k] = <<batch[k], resolve(batch[k])>>

\* a batch of two different imports, one resolved and one not, whose second
\* task completed first
C7_Witness ==
    /\ rPc = "collected"
    /\ Len(batch) = 2
    /\ completed = <<2, 1>>
    /\ batch[1] # batch[2]
    /\ IsSome(batch_result[1][2]) # IsSome(batch_result[2][2])

\* ---- the graph, stated on the edge list
AcceptedIndexes == {k \in DOMAIN edges : edges[k][1] \in Nodes(num_nodes)
                                         /\ edges[k][2] \in Nodes(num_nodes)}
InDegreeOf(v) == Cardinality({k \in AcceptedIndexes : edges[k][2] = v})
OutDegreeOf(v) == Cardinality({k \in AcceptedIndexes : edges[k][1] = v})

\* the k-th smallest element of a set of numbers
Nth(S, k) == CHOOSE x \in S : Cardinality({y \in S : y < x}) = k - 1

\* the other endpoints of the accepted edges that leave (side = 1) or enter
\* (side = 2) node v, in the order of the edge list
Neighbours(v, side) ==
    LET ks == {k \in AcceptedIndexes : edges[k][side] = v}
    IN  [j \in 1..Cardinality(ks) |-> edges[Nth(ks, j)][3 - side]]

RECURSIVE SumOver(_, _)
SumOver(S, f) ==
    IF S = {} THEN 0
    ELSE LET i == CHOOSE x \in S : TRUE IN f[i] + SumOver(S \ {i}, f)

\* C3: find_hubs(threshold) returns exactly one pair (v, in_degree(v)) for
\* every node v whose in-degree is >= threshold, no other pair, ordered by
\* in-degree non-increasing, for every threshold >= 0.
C3_FindHubsComplete ==
    gPc = "detect_hubs" =>
        /\ \A v \in Nodes(num_nodes) :
               InDegreeOf(v) >= threshold =>
                   Cardinality({k \in DOMAIN hubs : hubs[k] = <<v, InDegreeOf(v)>>}) = 1
        /\ \A k \in DOMAIN hubs :
               /\ hubs[k][1] \in Nodes(num_nodes)
               /\ hubs[k][2] = InDegreeOf(hubs[k][1])
               /\ hubs[k][2] >= threshold
        /\ \A k, l \in DOMAIN hubs : k < l => hubs[k][2] >= hubs[l][2]

\* C4: after PageRankComputer::new an edge is in the graph iff both its
\* endpoints are < num_nodes, self-loops and parallel edges included;
\* out_degree[v] is the length of v's out-neighbour list; the out-degrees and
\* the in-neighbour lists both add up to the number of accepted edges.
C4_GraphConstruction ==
    prPc # "off" =>
        /\ computer.num_nodes = num_nodes
        /\ DOMAIN computer.adjacency = Nodes(num_nodes)
        /\ DOMAIN computer.in_edges = Nodes(num_nodes)
        /\ DOMAIN computer.out_degree = Nodes(num_nodes)
        /\ \A v \in Nodes(num_nodes) :
               /\ computer.adjacency[v] = Neighbours(v, 1)
               /\ computer.in_edges[v] = Neighbours(v, 2)
               /\ computer.out_degree[v] = Len(computer.adjacency[v])
        /\ SumOver(Nodes(num_nodes), computer.out_degree) = Cardinality(AcceptedIndexes)
        /\ SumOver(Nodes(num_nodes), [v \in Nodes(num_nodes) |-> Len(computer.in_edges[v])])
               = Cardinality(AcceptedIndexes)

\* a graph built from a self-loop, which is accepted, and an edge that is out
\* of range, which is dropped
C4_Witness ==
    /\ prPc = "start"
    /\ \E k \in AcceptedIndexes : edges[k][1] = edges[k][2]
    /\ \E k \in DOMAIN edges : k \notin AcceptedIndexes
    /\ \E v \in Nodes(num_nodes) : computer.out_degree[v] = 1

\* ---- compute
\* k iterations of the update, from the uniform vector
RECURSIVE Iterated(_)
Iterated(k) ==
    IF k = 0 THEN InitialScores(computer)
    ELSE UpdateScores(computer, Iterated(k - 1))

\* C5: with num_nodes > 0, damping in (0,1), tolerance > 0 and
\* max_iterations >= 1, the score vector has length num_nodes, every score is
\* >= 0 and the scores add up to 1, after every iteration of the loop (each
\* step preserves the total mass) and in the vector returned.
C5_ScoresAreDistribution ==
    (computer.num_nodes > 0 /\ max_iterations >= 1
        /\ prPc \in {"loop", "normalize", "done"}) =>
        /\ DOMAIN scores = Nodes(computer.num_nodes)
        /\ \A i \in DOMAIN scores : RLe(Zero, scores[i])
        /\ RSumOver(DOMAIN scores, scores) = One

\* compute returned after two iterations on a graph with a dangling node and
\* a node that is not dangling, with scores that are not uniform
C5_Witness ==
    /\ prPc = "done"
    /\ iteration = 2
    /\ DanglingNodes(computer) # {}
    /\ DanglingNodes(computer) # Nodes(computer.num_nodes)
    /\ \E i, j \in DOMAIN scores : scores[i] # scores[j]

\* the number of steps compute may still take
Rank ==
    CASE prPc = "start" -> max_iterations + 3
      [] prPc = "loop" -> (max_iterations - iteration) + 1
      [] prPc = "normalize" -> 1
      [] OTHER -> 0

\* what holds of the loop in every state
C6_LoopBound ==
    computer.num_nodes > 0 =>
        /\ iteration <= max_iterations
        /\ Len(diffs) = iteration
        /\ \A k \in 1..(iteration - 1) : ~RLt(diffs[k], tolerance)
        /\ prPc = "loop" =>
               /\ iteration < max_iterations
               /\ \A k \in 1..iteration : ~RLt(diffs[k], tolerance)
        /\ prPc \in {"normalize", "done"} =>
               \/ iteration = max_iterations
               \/ iteration >= 1 /\ RLt(diffs[iteration], tolerance)
        /\ prPc = "normalize" => scores = Iterated(iteration)
        /\ prPc = "done" => scores = NormalizeScores(Iterated(iteration))

\* C6: compute always terminates (every step it takes lowers the number of
\* steps left, which is bounded by max_iterations + 3 and never negative); it
\* performs at most max_iterations iterations, stops after the first iteration
\* whose L1 difference is < tolerance, never stops earlier than max_iterations
\* while every difference is >= tolerance, and returns the renormalized result
\* of its last iteration.
C6_Terminates ==
    /\ [](C6_LoopBound /\ Rank >= 0)
    /\ [][Rank' < Rank]_vars

\* compute returned after two iterations of the three it was allowed: the
\* scores moved by the tolerance or more, then by less, but did move
C6_Witness ==
    /\ prPc = "done"
    /\ max_iterations = 3
    /\ iteration = 2
    /\ ~RLt(diffs[1], tolerance)
    /\ diffs[2] # Zero
    /\ RLt(diffs[2], tolerance)

\* ---- get_critical_nodes
\* the scores get_critical_nodes ranks: those of compute on the request
RankedScores ==
    compute(PageRankComputerNew(num_nodes, edges, damping),
            Min(CriticalMaxIterations, MaxIter), DefaultTolerance)

ReturnedNodes == {critical[k][1] : k \in DOMAIN critical}

\* C8: get_critical_nodes returns min(top_n, num_nodes) triples
\* (node, score, in-degree) with distinct nodes, ordered by score
\* non-increasing; the in-degree is the count of accepted incoming edges; no
\* omitted node has a score strictly greater than a returned one; a node with
\* in-degree 0 is returned whenever fewer than top_n other nodes score as much.
C8_CriticalNodes ==
    gPc = "get_critical_nodes" =>
        /\ Len(critical) = Min(top_n, num_nodes)
        /\ ReturnedNodes \subseteq Nodes(num_nodes)
        /\ Cardinality(ReturnedNodes) = Len(critical)
        /\ \A k \in DOMAIN critical :
               /\ critical[k][2] = RankedScores[critical[k][1]]
               /\ critical[k][3] = InDegreeOf(critical[k][1])
        /\ \A k, l \in DOMAIN critical :
               k < l => RLe(critical[l][2], critical[k][2])
        /\ \A v \in Nodes(num_nodes) \ ReturnedNodes :
               \A k \in DOMAIN critical : RLe(RankedScores[v], critical[k][2])
        /\ \A v \in Nodes(num_nodes) :
               (/\ InDegreeOf(v) = 0
                /\ Cardinality({u \in Nodes(num_nodes) \ {v} :
                                   RLe(RankedScores[v], RankedScores[u])}) < top_n)
                   => v \in ReturnedNodes

\* both nodes of a graph are returned: node 1 first, with the greater score,
\* then node 0, which has no incoming edge
C8_Witness ==
    /\ gPc = "get_critical_nodes"
    /\ top_n = 2
    /\ Len(critical) = 2
    /\ critical[1][1] = 1
    /\ critical[2][3] = 0
    /\ RLt(critical[2][2], critical[1][2])

\* ---- compute_graph_stats
MaxOver(S, f(_)) ==
    IF S = {} THEN 0 ELSE CHOOSE m \in {f(v) : v \in S} : \A v \in S : f(v) <= m

\* C9: total_edges is the length of the edge list, rejected edges included;
\* the maxima, the sums behind the averages and isolated_nodes count accepted
\* edges only; so total_edges >= sum of in-degrees, with equality iff no edge
\* was dropped.
C9_GraphStats ==
    gPc = "compute_graph_stats" =>
        /\ graph_stats.total_edges = Len(edges)
        /\ graph_stats.max_in_degree = MaxOver(Nodes(num_nodes), InDegreeOf)
        /\ graph_stats.max_out_degree = MaxOver(Nodes(num_nodes), OutDegreeOf)
        /\ graph_stats.isolated_nodes =
               Cardinality({v \in Nodes(num_nodes) :
                               \A k \in AcceptedIndexes :
                                   edges[k][1] # v /\ edges[k][2] # v})
        /\ num_nodes > 0 =>
               /\ graph_stats.avg_in_degree
                      = Rat(Cardinality(AcceptedIndexes), num_nodes)
               /\ graph_stats.avg_out_degree
                      = Rat(Cardinality(AcceptedIndexes), num_nodes)
        /\ graph_stats.total_edges
               >= SumOver(Nodes(num_nodes), [v \in Nodes(num_nodes) |-> InDegreeOf(v)])
        /\ (graph_stats.total_edges
               = SumOver(Nodes(num_nodes), [v \in Nodes(num_nodes) |-> InDegreeOf(v)]))
               <=> (AcceptedIndexes = DOMAIN edges)

\* statistics of a graph with an accepted edge, a dropped edge and an
\* isolated node
C9_Witness ==
    /\ gPc = "compute_graph_stats"
    /\ AcceptedIndexes # {}
    /\ AcceptedIndexes # DOMAIN edges
    /\ graph_stats.isolated_nodes = 1
    /\ graph_stats.total_edges = 2

\* ---- the whole core
InitCore == InitNorm \/ InitResolver \/ InitGraph \/ InitPageRank

NextCore == NextNorm \/ NextResolver \/ NextGraph \/ NextPageRank

SpecCore == InitCore /\ [][NextCore]_vars

\* C10: on num_nodes = 0 (with or without edges) and on an empty import
\* batch, fast_pagerank, detect_hubs, get_critical_nodes, compute_graph_stats
\* and get_resolution_stats return an empty collection or a record whose
\* numeric fields are all well-defined numbers: no average or rate is a
\* division by zero.
C10_TotalOnEmptyInputs ==
    /\ (prPc = "done" /\ num_nodes = 0) => scores = <<>>
    /\ (gPc = "detect_hubs" /\ num_nodes = 0) => hubs = <<>>
    /\ (gPc = "get_critical_nodes" /\ num_nodes = 0) => critical = <<>>
    /\ (gPc = "compute_graph_stats" /\ num_nodes = 0) =>
           /\ graph_stats.total_edges = Len(edges)
           /\ graph_stats.max_in_degree = 0
           /\ graph_stats.max_out_degree = 0
           /\ graph_stats.isolated_nodes = 0
           /\ IsRat(graph_stats.avg_in_degree)
           /\ IsRat(graph_stats.avg_out_degree)
    /\ (rPc = "collected" /\ caller = "get_resolution_stats" /\ batch = <<>>) =>
           /\ resolution_stats.total = 0
           /\ resolution_stats.resolved = 0
           /\ resolution_stats.unresolved = 0
           /\ resolution_stats.resolution_rate = Zero

\* ---- get_hub_stats
\* the nodes that are the target of an accepted edge
ImportedNodes == {v \in Nodes(num_nodes) : InDegreeOf(v) >= 1}

HubsAtLeast(d) == Cardinality({v \in Nodes(num_nodes) : InDegreeOf(v) >= d})

HubsUnder(order) ==
    find_hubs(HubDetectorNew(num_nodes, edges), threshold, order)

\* the candidate the fuzzy match returns when the file index yielded its
\* entries in `order` while the resolver was constructed
FuzzyUnder(order) ==
    SortByKeyLen(ImportResolverNew(file_index, order)[ToLowercase(Query)])[1]

\* C12: for identical inputs two runs return the same sequence in the same
\* order, and the same resolved path, whatever order the hash tables yield
\* their entries in: the hubs of equal in-degree and the fuzzy candidates of
\* equal path length included.
C12_Deterministic ==
    /\ gPc = "detect_hubs" =>
           \A order \in IterationOrders(DOMAIN HubDetectorNew(num_nodes, edges).in_degree) :
               hubs = HubsUnder(order)
    /\ (/\ rPc = "resolved"
        /\ Query \notin DOMAIN file_index
        /\ ExtHits = {}
        /\ IndexHits = {}
        /\ FuzzyCandidates # {}) =>
           \A order \in IterationOrders(DOMAIN file_index) :
               resolved = Some(FuzzyUnder(order))

\* ---- the per-node tasks of one iteration
\* D: the mass of the previous vector on the nodes without outgoing edge
DanglingMass ==
    RSumOver({j \in Nodes(num_nodes) : OutDegreeOf(j) = 0}, scores)

\* sum over the accepted edges (j, i) of old[j] / out_degree[j]
RECURSIVE IncomingMass(_, _)
IncomingMass(i, ks) ==
    IF ks = {} THEN Zero
    ELSE LET k == CHOOSE x \in ks : TRUE
             j == edges[k][1]
             rest == IncomingMass(i, ks \ {k})
         IN  IF edges[k][2] = i
             THEN RAdd(RDiv(scores[j], F64(OutDegreeOf(j))), rest)
             ELSE rest

\* new[i] = (1-d)/N + d*D/N + d * sum over j in in(i) of old[j]/out_degree[j]
SequentialScore(i) ==
    LET d == computer.damping
        N == F64(num_nodes)
    IN  RAdd(RAdd(RDiv(RSub(One, d), N), RDiv(RMul(d, DanglingMass), N)),
             RMul(d, IncomingMass(i, AcceptedIndexes)))

\* a step of the update phase is one task, which writes its own index only
\* and leaves the previous vector alone
OneTaskStep ==
    (prPc = "update" /\ prPc' = "update") =>
        \E i \in running :
            /\ running' = running \ {i}
            /\ \A j \in Nodes(num_nodes) \ {i} : new_scores'[j] = new_scores[j]
            /\ scores' = scores

\* the buffers are swapped only when no task is left
SwapAfterJoin ==
    (prPc = "update" /\ scores' # scores) => running = {}

\* C13: within one iteration the per-node tasks run in any interleaving;
\* each writes only its own index of the new vector and reads only the
\* previous vector and the graph; the buffers are swapped only after all
\* tasks have joined; so the new vector after the join is the same for every
\* interleaving: new[i] = (1-d)/N + d*D/N + d * sum of old[j]/out_degree[j]
\* over the in-neighbours j of i.
C13_TasksCommute ==
    /\ [](prPc = "update" =>
            \A i \in Nodes(num_nodes) \ running :
                new_scores[i] = SequentialScore(i))
    /\ [][OneTaskStep /\ SwapAfterJoin]_vars

\* the second iteration on two nodes, the task of node 1 done before the
\* task of node 0, whose score differs from the previous one
C13_Witness ==
    /\ prPc = "update"
    /\ iteration = 1
    /\ running = {0}
    /\ num_nodes >= 2
    /\ new_scores[1] # scores[1]

\* ---- the derived index and the lowercased lookup
\* the last '/'-separated segment of a key
BaseOf(k) ==
    LET slashes == {p \in DOMAIN k : k[p] = "/"}
    IN  SubSeq(k, MaxOver(slashes, LAMBDA p : p) + 1, Len(k))

\* a key without the extension of its last segment
StemOf(k) ==
    LET dots == {p \in DOMAIN k :
                    k[p] = "." /\ \A q \in p..Len(k) : k[q] # "/"}
    IN  IF dots = {} THEN k
        ELSE SubSeq(k, 1, MaxOver(dots, LAMBDA p : p) - 1)

\* the two keys of the derived index a file-index key is filed under
DerivedKeys(k) == { ToLowercase(StemOf(k)), ToLowercase(StemOf(BaseOf(k))) }

\* the candidates of the lowercased query, in the order they were pushed
QueryCandidates == normalized_index[ToLowercase(Query)]

\* the position of the first of the shortest candidates
FirstShortest ==
    Least({p \in DOMAIN QueryCandidates :
              \A q \in DOMAIN QueryCandidates :
                  Len(QueryCandidates[p]) <= Len(QueryCandidates[q])})

\* C14: when strategies 1-3 miss and the derived index has an entry for the
\* lowercased query, resolve returns a candidate of minimal actual-path
\* length, and among those of equal minimal length the one encountered first
\* when the index was built; the derived index holds, for every entry of the
\* file index, its actual path under its lowercased extension-stripped
\* normalized path and under its lowercased extension-stripped basename, and
\* nothing else.
C14_ShortestFirstCandidate ==
    /\ (/\ rPc = "resolved"
        /\ Query \notin DOMAIN file_index
        /\ ExtHits = {}
        /\ IndexHits = {}
        /\ ToLowercase(Query) \in DOMAIN normalized_index) =>
           resolved = Some(QueryCandidates[FirstShortest])
    /\ rPc \in {"ready", "resolved"} =>
        /\ \A k \in DOMAIN file_index : \A dk \in DerivedKeys(k) :
               /\ dk \in DOMAIN normalized_index
               /\ file_index[k] \in Elements(normalized_index[dk])
        /\ \A dk \in DOMAIN normalized_index :
               /\ normalized_index[dk] # <<>>
               /\ \A c \in Elements(normalized_index[dk]) :
                      \E k \in DOMAIN file_index :
                          file_index[k] = c /\ dk \in DerivedKeys(k)

\* two files tie on the length of their actual paths, and the lookup answers
\* with the one that was pushed first
C14_Witness ==
    /\ rPc = "resolved"
    /\ Query \notin DOMAIN file_index
    /\ ExtHits = {}
    /\ IndexHits = {}
    /\ ToLowercase(Query) \in DOMAIN normalized_index
    /\ \E p, q \in DOMAIN QueryCandidates :
           /\ p < q
           /\ QueryCandidates[p] # QueryCandidates[q]
           /\ Len(QueryCandidates[p]) = Len(QueryCandidates[q])
           /\ resolved = Some(QueryCandidates[p])

\* ---- the divisions of the update
\* the in-neighbours of node i, as the computer holds them
InNeighbours(i) == Elements(computer.in_edges[i])

\* C15: in every graph built by PageRankComputer::new, every node j of an
\* in-neighbour list in(i) satisfies j < num_nodes and out_degree[j] >= 1, so
\* every term old[j] / out_degree[j] of every iteration is well-defined and
\* no score is undefined.
C15_NoDivisionByZero ==
    prPc # "off" =>
        /\ \A i \in Nodes(num_nodes) : \A j \in InNeighbours(i) :
               /\ j \in Nodes(num_nodes)
               /\ computer.out_degree[j] >= 1
               /\ prPc = "loop" =>
                      IsRat(F64Div(scores[j], F64(computer.out_degree[j])))
        /\ \A i \in DOMAIN scores : IsRat(scores[i])

\* after an iteration, a node with an in-neighbour of out-degree 2: its term
\* was a division by 2
C15_Witness ==
    /\ prPc = "done"
    /\ iteration >= 1
    /\ \E i \in Nodes(num_nodes) : \E j \in InNeighbours(i) :
           computer.out_degree[j] = 2 /\ j # i

\* ---- the paths resolve returns
\* the actual paths of the file index given at construction
IndexedPaths == {file_index[k] : k \in DOMAIN file_index}

\* C16: resolve never invents a path: for every file index, extension list
\* and import string (the empty string and the strings that normalize to it
\* included), a returned path is the value of some entry of the file index;
\* with an empty file index resolve returns absent for every input.
C16_NoInventedPath ==
    /\ rPc = "resolved" =>
           /\ IsSome(resolved) => resolved[2] \in IndexedPaths
           /\ file_index = EmptyIndex => resolved = None
    /\ \A k \in DOMAIN slots : slots[k] # Pending =>
           LET result == slots[k][2][2]
           IN  /\ IsSome(result) => result[2] \in IndexedPaths
               /\ file_index = EmptyIndex => result = None

\* the empty import string, which every key ends with, resolved to the only
\* file of the index, whose actual path is not its key
C16_Witness ==
    /\ rPc = "resolved"
    /\ import_string = <<>>
    /\ IsSome(resolved)
    /\ resolved[2] \notin DOMAIN file_index

====
